---- MODULE Spec2Model ----
(***************************************************************************)
(* Legendary Scalper v2 (Go): the position lifecycle engine.               *)
(*                                                                         *)
(*   BotEngine.Tick            v2_go/internal/bot/engine.go                *)
(*   MartingaleStrategy        v2_go/internal/strategy/dynamic_tp.go       *)
(*   CheckSafetyConditions     v2_go/internal/strategy/safety.go           *)
(*   StateManager              v2_go/internal/strategy/state_manager.go    *)
(*                                                                         *)
(* Numbers.  The program computes in float64.  The model computes in       *)
(* integers: prices and margins are whole USDT, quantities whole units,    *)
(* time whole minutes.  Every division of the code is either rewritten as  *)
(* the equivalent cross-multiplied comparison (x <= c/0.95 is              *)
(* 95*x <= 100*c) or applied only to operands that divide exactly (the     *)
(* value sets below are chosen so).                                        *)
(***************************************************************************)
EXTENDS Integers, Sequences, FiniteSets, TLC

VARIABLES
    ActiveTrades,   \* StateManager.ActiveTrades: symbol -> MartingalePosition
    file,           \* content of positions.json: a JSON document, or no file
    exch,           \* the exchange's positions with non-zero size: symbol -> PositionRisk
    now,            \* wall clock, minutes
    pc,             \* where the process is: "wait" | "synced" | "done" in Run,
                    \* "boot" | "idle" | "call" | "save" | "write" around the ledger
    tick,           \* what the tick in progress (or the last one) has done so far
    dIn,            \* inputs of one evaluation of the step-add decision functions
    dOut,           \* its outputs
    sto             \* the ledger call in progress and what the last one returned

vars == <<ActiveTrades, file, exch, now, pc, tick, dIn, dOut, sto>>

----------------------------------------------------------------------------
(* Go slices are indexed from 0, TLA+ sequences from 1.                    *)

At(list, i) == list[i + 1]

Abs(x) == IF x < 0 THEN -x ELSE x
Min(a, b) == IF a <= b THEN a ELSE b

Put(m, k, v) == [x \in DOMAIN m \cup {k} |-> IF x = k THEN v ELSE m[x]]
Drop(m, k) == [x \in DOMAIN m \ {k} |-> m[x]]
EmptyMap == [x \in {} |-> 0]

----------------------------------------------------------------------------
(* Configuration snapshot (config.StrategyConfig), read once at startup.   *)
(* Martingale.Steps is the margin per rung in USDT, StepDistances the %    *)
(* move per rung, StepWaitTimes the cooldown per rung in minutes.          *)
(* Safety.MaxVolMultiplier is a float: MaxVolMultiplier2 is twice it.      *)

Cfg ==
    [ Steps             |-> <<10, 10, 20, 40, 80>>,
      StepDistances     |-> <<1, 2, 2, 4, 4>>,
      StepWaitTimes     |-> <<0, 1, 1, 2, 2>>,
      Leverage          |-> 2,
      RSICircuitBreaker |-> 90,
      MaxVolMultiplier2 |-> 4,
      MaxPositions      |-> 1 ]

----------------------------------------------------------------------------
(* Bounds of the model.                                                    *)

\* the clock runs 0..MaxTime
MaxTime == 1

Symbols == {"XYZUSDT", "ABCUSDT"}

\* ticker prices
Prices == {10, 20}

\* The positions the exchange reports for a symbol (PositionAmt, EntryPrice,
\* Leverage as parsed by strconv.ParseFloat; Leverage 0 is an empty or
\* unparsable field).  Their presumed margins are 10, 10, 40 and 180: the
\* first rung, a rung in the middle, and more than all rungs together.
ExchPosition ==
    { [PositionAmt |-> -2, EntryPrice |-> 10, Leverage |-> 2],
      [PositionAmt |-> -1, EntryPrice |-> 20, Leverage |-> 2],
      [PositionAmt |-> -4, EntryPrice |-> 10, Leverage |-> 0],
      [PositionAmt |-> -9, EntryPrice |-> 20, Leverage |-> 1] }

----------------------------------------------------------------------------
(* strategy.MartingalePosition                                             *)

MartingalePosition(sym, step, entry, qty, margin, t) ==
    [ Symbol        |-> sym,
      Step          |-> step,
      EntryPrice    |-> entry,
      Quantity      |-> qty,
      TotalMargin   |-> margin,
      NextStepPrice |-> 0,
      StopLoss      |-> 0,
      TakeProfit    |-> 0,
      LastAddTime   |-> t ]

----------------------------------------------------------------------------
(* strategy.MartingaleStrategy; s is the receiver's configuration.         *)

GetStepSize(s, stepIndex) ==
    IF stepIndex < 0 \/ stepIndex >= Len(s.Steps)
    THEN 0
    ELSE At(s.Steps, stepIndex)

\* The loop of InferStepFromMargin without the 0.95 tolerance.
RECURSIVE InferLoopNoTolerance(_, _, _, _)
InferLoopNoTolerance(s, marginUSDT, i, cumulative) ==
    IF i >= Len(s.Steps)
    THEN Len(s.Steps)
    ELSE LET c == cumulative + At(s.Steps, i)
         IN  IF marginUSDT <= c
             THEN i + 1
             ELSE InferLoopNoTolerance(s, marginUSDT, i + 1, c)

\* The loop of InferStepFromMargin from index i on, cumulative being the
\* sum of the rungs before i.  marginUSDT <= cumulative/0.95 is
\* 95*marginUSDT <= 100*cumulative.
RECURSIVE InferLoop(_, _, _, _)
InferLoop(s, marginUSDT, i, cumulative) ==
    IF i >= Len(s.Steps)
    THEN Len(s.Steps)
    ELSE LET c == cumulative + At(s.Steps, i)
         IN  IF 95 * marginUSDT <= 100 * c
             THEN i + 1
             ELSE InferLoop(s, marginUSDT, i + 1, c)

\* InferStepFromMargin converting the rung to 1-based a second time.
InferStepOffByOne(s, marginUSDT) == InferLoop(s, marginUSDT, 0, 0) + 1

InferStepFromMargin(s, marginUSDT) == InferLoop(s, marginUSDT, 0, 0)

\* CalculateNextStep looking at the price before the cooldown.
CalculateNextStepPriceFirst(s, pos, currentPrice, volatility, t) ==
    IF pos.Step >= Len(s.Steps)
    THEN [shouldAdd |-> FALSE, reason |-> "Max steps reached"]
    ELSE LET multiplier2 == IF volatility > 0
                            THEN Min(2 + volatility, s.MaxVolMultiplier2)
                            ELSE 2
             requiredDropPercent2 == At(s.StepDistances, pos.Step) * multiplier2
         IN  IF 200 * currentPrice >= pos.EntryPrice * (200 + requiredDropPercent2)
             THEN [shouldAdd |-> TRUE, reason |-> "Price target hit"]
             ELSE IF t - pos.LastAddTime < At(s.StepWaitTimes, pos.Step)
             THEN [shouldAdd |-> FALSE, reason |-> "Waiting for cooldown"]
             ELSE [shouldAdd |-> FALSE, reason |-> "Price target not reached"]

\* CalculateNextStep comparing the price with > instead of >=.
CalculateNextStepStrict(s, pos, currentPrice, volatility, t) ==
    IF pos.Step >= Len(s.Steps)
    THEN [shouldAdd |-> FALSE, reason |-> "Max steps reached"]
    ELSE IF t - pos.LastAddTime < At(s.StepWaitTimes, pos.Step)
    THEN [shouldAdd |-> FALSE, reason |-> "Waiting for cooldown"]
    ELSE LET multiplier2 == IF volatility > 0
                            THEN Min(2 + volatility, s.MaxVolMultiplier2)
                            ELSE 2
             requiredDropPercent2 == At(s.StepDistances, pos.Step) * multiplier2
         IN  IF 200 * currentPrice > pos.EntryPrice * (200 + requiredDropPercent2)
             THEN [shouldAdd |-> TRUE, reason |-> "Price target hit"]
             ELSE [shouldAdd |-> FALSE, reason |-> "Price target not reached"]

\* CalculateNextStep at time t (time.Since(x) is t - x).  volatility is in
\* whole units; multiplier2 is twice the code's multiplier and
\* requiredDropPercent2 twice its requiredDropPercent, so that
\*   currentPrice >= pos.EntryPrice * (1 + requiredDropPercent/100)
\* is 200*currentPrice >= pos.EntryPrice * (200 + requiredDropPercent2).
CalculateNextStep(s, pos, currentPrice, volatility, t) ==
    IF pos.Step >= Len(s.Steps)
    THEN [shouldAdd |-> FALSE, reason |-> "Max steps reached"]
    ELSE LET waitTime == At(s.StepWaitTimes, pos.Step)
         IN  IF t - pos.LastAddTime < waitTime
             THEN [shouldAdd |-> FALSE, reason |-> "Waiting for cooldown"]
             ELSE LET baseDistance == At(s.StepDistances, pos.Step)
                      multiplier2 == IF volatility > 0
                                     THEN Min(2 + volatility, s.MaxVolMultiplier2)
                                     ELSE 2
                      requiredDropPercent2 == baseDistance * multiplier2
                  IN  IF 200 * currentPrice >= pos.EntryPrice * (200 + requiredDropPercent2)
                      THEN [shouldAdd |-> TRUE, reason |-> "Price target hit"]
                      ELSE [shouldAdd |-> FALSE, reason |-> "Price target not reached"]

\* safety.go: CheckSafetyConditions
CheckSafetyConditions(s, rsi, step) ==
    IF step >= 4 /\ rsi > s.RSICircuitBreaker
    THEN [ok |-> FALSE, reason |-> "RSI Circuit Breaker"]
    ELSE [ok |-> TRUE, reason |-> "Safety checks passed"]

----------------------------------------------------------------------------
(* encoding/json as SaveState and LoadState use it.  A number is written   *)
(* as its decimal text, a time as text too (minutes here); a document is   *)
(* the list of the map's entries in key order, each value an object with   *)
(* the fields' json names.  A file is [exists, complete, entries]:         *)
(* complete is FALSE for a document cut short, which does not parse.       *)

\* Symbols in the order json.MarshalIndent writes map keys (sorted).
SortedSymbols == <<"ABCUSDT", "XYZUSDT">>

\* Precision lost: only the leading digit of a number is written.
RECURSIVE DigitsLeading(_)
DigitsLeading(n) == IF n < 10 THEN <<n>> ELSE DigitsLeading(n \div 10) \o <<0>>

\* The decimal text of n, as a sequence of digits.
RECURSIVE Digits(_)
Digits(n) == IF n < 10 THEN <<n>> ELSE Append(Digits(n \div 10), n % 10)

\* The number a decimal text denotes.
RECURSIVE ParseDigits(_)
ParseDigits(ds) ==
    IF ds = <<>> THEN 0
    ELSE 10 * ParseDigits(SubSeq(ds, 1, Len(ds) - 1)) + ds[Len(ds)]

\* A MartingalePosition as a JSON object (struct tags of dynamic_tp.go 46-54).
JSONObject(pos) ==
    [ symbol          |-> pos.Symbol,
      step            |-> Digits(pos.Step),
      entry_price     |-> Digits(pos.EntryPrice),
      quantity        |-> Digits(pos.Quantity),
      total_margin    |-> Digits(pos.TotalMargin),
      next_step_price |-> Digits(pos.NextStepPrice),
      stop_loss       |-> Digits(pos.StopLoss),
      take_profit     |-> Digits(pos.TakeProfit),
      last_add_time   |-> Digits(pos.LastAddTime) ]

\* The MartingalePosition a JSON object decodes to.
FromJSONObject(obj) ==
    [ Symbol        |-> obj.symbol,
      Step          |-> ParseDigits(obj.step),
      EntryPrice    |-> ParseDigits(obj.entry_price),
      Quantity      |-> ParseDigits(obj.quantity),
      TotalMargin   |-> ParseDigits(obj.total_margin),
      NextStepPrice |-> ParseDigits(obj.next_step_price),
      StopLoss      |-> ParseDigits(obj.stop_loss),
      TakeProfit    |-> ParseDigits(obj.take_profit),
      LastAddTime   |-> ParseDigits(obj.last_add_time) ]

\* No positions.json.
Absent == [exists |-> FALSE, complete |-> FALSE, entries |-> <<>>]

\* json.MarshalIndent(sm.ActiveTrades, "", "  ")
MarshalIndent(trades) ==
    LET keys == SelectSeq(SortedSymbols, LAMBDA sym : sym \in DOMAIN trades)
    IN  [ exists   |-> TRUE,
          complete |-> TRUE,
          entries  |-> [i \in 1..Len(keys) |->
                          [key |-> keys[i], value |-> JSONObject(trades[keys[i]])]] ]

\* The files a write of data that stops early can leave: the first k
\* entries, the last one missing at least.
Prefixes(data) ==
    { [exists |-> TRUE, complete |-> FALSE, entries |-> SubSeq(data.entries, 1, k)] :
         k \in 0..(IF data.entries = <<>> THEN 0 ELSE Len(data.entries) - 1) }

\* json.Unmarshal(data, &trades): a document that does not parse leaves
\* trades alone; the entries of one that does are set in trades.
RECURSIVE SetEntries(_, _)
SetEntries(trades, entries) ==
    IF entries = <<>>
    THEN trades
    ELSE SetEntries(Put(trades, entries[1].key, FromJSONObject(entries[1].value)),
                    Tail(entries))

Unmarshal(data, trades) ==
    IF ~data.complete
    THEN [err |-> TRUE, trades |-> trades]
    ELSE [err |-> FALSE, trades |-> SetEntries(trades, data.entries)]

\* StateManager.LoadState on a manager whose map is trades.
LoadState(f, trades) ==
    IF ~f.exists
    THEN [err |-> "", trades |-> trades]
    ELSE LET u == Unmarshal(f, trades)
         IN  IF u.err
             THEN [err |-> "corrupt state file", trades |-> u.trades]
             ELSE [err |-> "", trades |-> u.trades]

----------------------------------------------------------------------------
(* strategy.StateManager; sm is [ActiveTrades, file, saves], saves being   *)
(* the number of calls of SaveState made on it.  Every write of the file   *)
(* succeeds here and no step of it is seen from outside; the steps are     *)
(* taken apart further down.                                               *)

StateManager(trades, f) == [ActiveTrades |-> trades, file |-> f, saves |-> 0]

SaveState(sm) ==
    [sm EXCEPT !.file = MarshalIndent(sm.ActiveTrades), !.saves = @ + 1]

UpdatePosition(sm, pos) ==
    SaveState([sm EXCEPT !.ActiveTrades = Put(sm.ActiveTrades, pos.Symbol, pos)])

ClearPosition(sm, symbol) ==
    SaveState([sm EXCEPT !.ActiveTrades = Drop(sm.ActiveTrades, symbol)])

RemovePosition(sm, symbol) == ClearPosition(sm, symbol)

----------------------------------------------------------------------------
(* exchange.BinanceClient, as far as the engine sees it.                   *)

\* GetAllOpenPositions: the positions with non-zero size, as a list.
RECURSIVE ListOf(_, _)
ListOf(positions, syms) ==
    IF syms = {}
    THEN <<>>
    ELSE LET sym == CHOOSE x \in syms : TRUE
         IN  <<[ Symbol      |-> sym,
                 PositionAmt |-> positions[sym].PositionAmt,
                 EntryPrice  |-> positions[sym].EntryPrice,
                 Leverage    |-> positions[sym].Leverage ]>>
             \o ListOf(positions, syms \ {sym})

GetAllOpenPositions(positions) == ListOf(positions, DOMAIN positions)

\* What the exchange may hold for sym after filling a market SELL of
\* quantity at fill; {} when it rejects the order.  A new position is the
\* order itself; an existing one grows.
Filled(positions, sym, quantity, fill) ==
    IF quantity <= 0
    THEN {}
    ELSE IF sym \notin DOMAIN positions
    THEN {p \in ExchPosition : p.PositionAmt = -quantity /\ p.EntryPrice = fill}
    ELSE {p \in ExchPosition : Abs(p.PositionAmt) > Abs(positions[sym].PositionAmt)}

----------------------------------------------------------------------------
(* bot.BotEngine.Tick, part 1: sync with the exchange (engine.go 94-165).  *)

\* margin := (math.Abs(amt) * entryPrice) / leverage
PresumedMargin(amt, entryPrice, leverage) == (Abs(amt) * entryPrice) \div leverage

\* The loop body without the quantity sync of lines 130-133.
SyncPositionNoQuantity(sm, p, t) ==
    LET amt        == p.PositionAmt
        entryPrice == p.EntryPrice
        leverage   == IF p.Leverage = 0 THEN 1 ELSE p.Leverage
        margin     == PresumedMargin(amt, entryPrice, leverage)
    IN  IF p.Symbol \in DOMAIN sm.ActiveTrades
        THEN LET local0 == sm.ActiveTrades[p.Symbol]
                 local1 == [local0 EXCEPT !.EntryPrice = entryPrice]
                 sm1    == IF local0.EntryPrice # entryPrice
                           THEN UpdatePosition(sm, local1)
                           ELSE sm
                 inferredStep == InferStepFromMargin(Cfg, margin)
                 local2 == [local1 EXCEPT !.Step = inferredStep]
                 sm2    == IF local1.Step # inferredStep
                           THEN UpdatePosition(sm1, local2)
                           ELSE sm1
             IN  sm2
        ELSE LET step == InferStepFromMargin(Cfg, margin)
             IN  UpdatePosition(sm,
                    MartingalePosition(p.Symbol, step, entryPrice, Abs(amt), margin, t))

\* The loop body with a re-inferred step restarting the cooldown clock.
SyncPositionResetsClock(sm, p, t) ==
    LET amt        == p.PositionAmt
        entryPrice == p.EntryPrice
        leverage   == IF p.Leverage = 0 THEN 1 ELSE p.Leverage
        margin     == PresumedMargin(amt, entryPrice, leverage)
    IN  IF p.Symbol \in DOMAIN sm.ActiveTrades
        THEN LET local0 == sm.ActiveTrades[p.Symbol]
                 inferredStep == InferStepFromMargin(Cfg, margin)
                 local1 == [local0 EXCEPT !.EntryPrice = entryPrice,
                                          !.Step = inferredStep,
                                          !.Quantity = Abs(amt),
                                          !.LastAddTime =
                                              IF local0.Step # inferredStep THEN t ELSE @]
             IN  IF local1 # local0 THEN UpdatePosition(sm, local1) ELSE sm
        ELSE LET step == InferStepFromMargin(Cfg, margin)
             IN  UpdatePosition(sm,
                    MartingalePosition(p.Symbol, step, entryPrice, Abs(amt), margin, t))

\* The loop body with the quantity written and saved whether it differs or
\* not.
SyncPositionUnguarded(sm, p, t) ==
    LET amt        == p.PositionAmt
        entryPrice == p.EntryPrice
        leverage   == IF p.Leverage = 0 THEN 1 ELSE p.Leverage
        margin     == PresumedMargin(amt, entryPrice, leverage)
    IN  IF p.Symbol \in DOMAIN sm.ActiveTrades
        THEN LET local0 == sm.ActiveTrades[p.Symbol]
                 inferredStep == InferStepFromMargin(Cfg, margin)
             IN  UpdatePosition(sm, [local0 EXCEPT !.EntryPrice = entryPrice,
                                                   !.Step = inferredStep,
                                                   !.Quantity = Abs(amt)])
        ELSE LET step == InferStepFromMargin(Cfg, margin)
             IN  UpdatePosition(sm,
                    MartingalePosition(p.Symbol, step, entryPrice, Abs(amt), margin, t))

\* The body of the loop over allPos for one exchange position p, at time t.
SyncPosition(sm, p, t) ==
    LET amt        == p.PositionAmt
        entryPrice == p.EntryPrice
        leverage   == IF p.Leverage = 0 THEN 1 ELSE p.Leverage
        margin     == PresumedMargin(amt, entryPrice, leverage)
    IN  IF p.Symbol \in DOMAIN sm.ActiveTrades
        THEN LET local0 == sm.ActiveTrades[p.Symbol]
                 local1 == [local0 EXCEPT !.EntryPrice = entryPrice]
                 sm1    == IF local0.EntryPrice # entryPrice
                           THEN UpdatePosition(sm, local1)
                           ELSE sm
                 inferredStep == InferStepFromMargin(Cfg, margin)
                 local2 == [local1 EXCEPT !.Step = inferredStep]
                 sm2    == IF local1.Step # inferredStep
                           THEN UpdatePosition(sm1, local2)
                           ELSE sm1
                 local3 == [local2 EXCEPT !.Quantity = Abs(amt)]
                 \* math.Abs(localPos.Quantity-math.Abs(amt)) > 0.0001: the
                 \* quantities are whole units, so any difference is above it
                 sm3    == IF Abs(local2.Quantity - Abs(amt)) > 0
                           THEN UpdatePosition(sm2, local3)
                           ELSE sm2
             IN  sm3
        ELSE LET step == InferStepFromMargin(Cfg, margin)
             IN  UpdatePosition(sm,
                    MartingalePosition(p.Symbol, step, entryPrice, Abs(amt), margin, t))

\* for _, p := range allPos { ... }
RECURSIVE SyncAll(_, _, _)
SyncAll(sm, allPos, t) ==
    IF allPos = <<>>
    THEN sm
    ELSE SyncAll(SyncPosition(sm, Head(allPos), t), Tail(allPos), t)

\* The cleanup loop left out.
CleanupSkipped(sm, activeSymbols) == sm

\* Cleanup: for sym := range ActiveTrades { if !activeSymbols[sym] { RemovePosition(sym) } }
RECURSIVE Cleanup(_, _)
Cleanup(sm, activeSymbols) ==
    LET closed == DOMAIN sm.ActiveTrades \ activeSymbols
    IN  IF closed = {}
        THEN sm
        ELSE Cleanup(RemovePosition(sm, CHOOSE x \in closed : TRUE), activeSymbols)

ActiveSymbols(allPos) == {allPos[i].Symbol : i \in 1..Len(allPos)}

Reconcile(sm, allPos, t) == Cleanup(SyncAll(sm, allPos, t), ActiveSymbols(allPos))

----------------------------------------------------------------------------
(* The engine's state machine.  Run calls Tick on every timer firing; a    *)
(* tick is: sync with the exchange, then display, scan and entry.  pc is   *)
(* "wait" between ticks, "synced" after the sync, "done" when Tick is      *)
(* about to return.  tick records what the tick has seen and done:         *)
(*   fetchOk  GetAllOpenPositions succeeded                                *)
(*   pre      the ledger's symbols when the tick began                     *)
(*   snap     the list GetAllOpenPositions returned                        *)
(*   seen     the price GetPrice returned for each position displayed      *)
(*   orders   the calls of PlaceEntryOrder, each with the ticker price   *)
(*            the quantity came from and the average price it returned     *)
(*   opps     the ranked list ScanForOpportunities returned                *)
(*   outcome  the branch on which the entry part of Tick ended             *)
(*   log      the errors and warnings the tick has logged                  *)

NoTick ==
    [fetchOk |-> FALSE, pre |-> {}, snap |-> <<>>, seen |-> EmptyMap, orders |-> <<>>,
     opps |-> <<>>, outcome |-> "", log |-> <<>>]
NoInput == [none |-> TRUE]
NoStore == [none |-> TRUE]
NoOutput == [none |-> TRUE]

\* The ledger the engine may find on disk at startup: nothing, or records
\* an earlier run has written.
LoadedLedgers ==
    { EmptyMap,
      [x \in {"XYZUSDT"} |-> MartingalePosition("XYZUSDT", 3, 10, 4, 40, 0)] }

\* The ranked opportunity lists the scanner may return.
Rankings ==
    {<<>>} \cup {<<a>> : a \in Symbols}
           \cup {r \in {<<a, b>> : a \in Symbols, b \in Symbols} : r[1] # r[2]}

Init ==
    /\ ActiveTrades \in LoadedLedgers
    /\ file = MarshalIndent(ActiveTrades)
    /\ exch = EmptyMap
    /\ now = 0
    /\ pc = "wait"
    /\ tick = NoTick
    /\ sto = NoStore
    /\ dIn = NoInput
    /\ dOut = NoOutput

\* Tick, lines 94-165, GetAllOpenPositions succeeding.
TickSync ==
    /\ pc = "wait"
    /\ LET allPos == GetAllOpenPositions(exch)
           sm     == Reconcile(StateManager(ActiveTrades, file), allPos, now)
       IN  /\ ActiveTrades' = sm.ActiveTrades
           /\ file' = sm.file
           /\ tick' = [NoTick EXCEPT !.fetchOk = TRUE, !.pre = DOMAIN ActiveTrades,
                                     !.snap = allPos]
    /\ pc' = "synced"
    /\ UNCHANGED <<exch, now, dIn, dOut, sto>>

\* Lines 94-165 with a failed fetch taken for an empty list of positions.
TickSyncFailedAsEmpty ==
    /\ pc = "wait"
    /\ LET sm == Reconcile(StateManager(ActiveTrades, file), <<>>, now)
       IN  /\ ActiveTrades' = sm.ActiveTrades
           /\ file' = sm.file
    /\ tick' = [NoTick EXCEPT !.pre = DOMAIN ActiveTrades,
                              !.log = <<"Failed to sync positions">>]
    /\ pc' = "synced"
    /\ UNCHANGED <<exch, now, dIn, dOut, sto>>

\* Tick, lines 94-96, GetAllOpenPositions failing: logged, the tick goes on.
TickSyncFailed ==
    /\ pc = "wait"
    /\ tick' = [NoTick EXCEPT !.pre = DOMAIN ActiveTrades,
                              !.log = <<"Failed to sync positions">>]
    /\ pc' = "synced"
    /\ UNCHANGED <<ActiveTrades, file, exch, now, dIn, dOut, sto>>

\* Tick, lines 205-208: ScanForOpportunities fails.
TickScanFailed ==
    /\ pc = "synced"
    /\ \E seen \in [DOMAIN ActiveTrades -> Prices] :
          tick' = [tick EXCEPT !.seen = seen, !.outcome = "scan failed",
                               !.log = Append(@, "Scan failed")]
    /\ pc' = "done"
    /\ UNCHANGED <<ActiveTrades, file, exch, now, dIn, dOut, sto>>

\* Tick, lines 210-213: the scan finds nothing.
TickNoOpportunity ==
    /\ pc = "synced"
    /\ \E seen \in [DOMAIN ActiveTrades -> Prices] :
          tick' = [tick EXCEPT !.seen = seen, !.outcome = "no opportunity"]
    /\ pc' = "done"
    /\ UNCHANGED <<ActiveTrades, file, exch, now, dIn, dOut, sto>>

\* Tick, lines 216-224: the best opportunity is already in the ledger.
TickAlreadyTrading ==
    /\ pc = "synced"
    /\ \E opps \in Rankings \ {<<>>} :
          LET best == opps[1]
          IN  /\ best \in DOMAIN ActiveTrades
              /\ \E seen \in [DOMAIN ActiveTrades -> Prices] :
                    tick' = [tick EXCEPT !.seen = seen, !.opps = opps,
                                         !.outcome = "already trading"]
    /\ pc' = "done"
    /\ UNCHANGED <<ActiveTrades, file, exch, now, dIn, dOut, sto>>

\* Tick, lines 227-238: GetPrice or GetKlines fails for the best opportunity.
TickMarketDataFailed ==
    /\ pc = "synced"
    /\ \E opps \in Rankings \ {<<>>}, failed \in {"price failed", "klines failed"} :
          LET best == opps[1]
          IN  /\ best \notin DOMAIN ActiveTrades
              /\ \E seen \in [DOMAIN ActiveTrades -> Prices] :
                    tick' = [tick EXCEPT !.seen = seen, !.opps = opps,
                                         !.outcome = failed,
                                         !.log = Append(@,
                                            IF failed = "price failed"
                                            THEN "Failed to get price"
                                            ELSE "Failed to get klines")]
    /\ pc' = "done"
    /\ UNCHANGED <<ActiveTrades, file, exch, now, dIn, dOut, sto>>

\* quantity of lines 246-254 at ticker price px
EntryQuantity(px) ==
    LET marginUSDT == GetStepSize(Cfg, 0)
        leverage   == IF Cfg.Leverage < 1 THEN 1 ELSE Cfg.Leverage
    IN  (marginUSDT * leverage) \div px

\* Lines 260-264 without the return: the failed order's position is
\* recorded all the same.
TickOrderFailedNoReturn ==
    /\ pc = "synced"
    /\ \E opps \in Rankings \ {<<>>}, px \in Prices :
          LET best == opps[1]
              quantity == EntryQuantity(px)
              newPos == MartingalePosition(best, 1, px, quantity,
                                           GetStepSize(Cfg, 0), now)
              sm == UpdatePosition(
                       StateManager(ActiveTrades, file), newPos)
          IN  /\ best \notin DOMAIN ActiveTrades
              /\ ActiveTrades' = sm.ActiveTrades
              /\ file' = sm.file
              /\ \E seen \in [DOMAIN ActiveTrades -> Prices] :
                    tick' = [tick EXCEPT
                               !.seen = seen, !.opps = opps,
                               !.outcome = "order failed",
                               !.log = Append(@, "Execution Failed"),
                               !.orders = Append(@,
                                  [Symbol |-> best, Side |-> "SELL",
                                   Quantity |-> quantity, ok |-> FALSE,
                                   held |-> best \in DOMAIN exch,
                                   Price |-> px, AvgPrice |-> 0])]
    /\ pc' = "done"
    /\ UNCHANGED <<exch, now, dIn, dOut, sto>>

\* Tick, lines 246-264: PlaceEntryOrder fails.
TickOrderFailed ==
    /\ pc = "synced"
    /\ \E opps \in Rankings \ {<<>>}, px \in Prices :
          LET best == opps[1]
              quantity == EntryQuantity(px)
          IN  /\ best \notin DOMAIN ActiveTrades
              /\ \E seen \in [DOMAIN ActiveTrades -> Prices] :
                    tick' = [tick EXCEPT
                               !.seen = seen, !.opps = opps,
                               !.outcome = "order failed",
                               !.log = Append(@, "Execution Failed"),
                               !.orders = Append(@,
                                  [Symbol |-> best, Side |-> "SELL",
                                   Quantity |-> quantity, ok |-> FALSE,
                                   held |-> best \in DOMAIN exch,
                                   Price |-> px, AvgPrice |-> 0])]
    /\ pc' = "done"
    /\ UNCHANGED <<ActiveTrades, file, exch, now, dIn, dOut, sto>>

\* Lines 266-281 with the ticker price recorded whatever the order returned.
TickEntryTickerPrice ==
    /\ pc = "synced"
    /\ \E opps \in Rankings \ {<<>>}, px \in Prices, fill \in Prices :
          LET best == opps[1]
              marginUSDT == GetStepSize(Cfg, 0)
              quantity == EntryQuantity(px)
          IN  /\ best \notin DOMAIN ActiveTrades
              /\ \E filled \in Filled(exch, best, quantity, fill), reported \in {0, fill} :
                    LET newPos == MartingalePosition(best, 1, px, quantity,
                                                     marginUSDT, now)
                        sm == UpdatePosition(
                                 StateManager(ActiveTrades, file), newPos)
                    IN  /\ exch' = Put(exch, best, filled)
                        /\ ActiveTrades' = sm.ActiveTrades
                        /\ file' = sm.file
                        /\ \E seen \in [DOMAIN ActiveTrades -> Prices] :
                              tick' = [tick EXCEPT
                                         !.seen = seen, !.opps = opps,
                                         !.outcome = "opened",
                                         !.log = IF reported = 0
                                                 THEN Append(@, "API returned 0 fill price")
                                                 ELSE @,
                                         !.orders = Append(@,
                                            [Symbol |-> best, Side |-> "SELL",
                                             Quantity |-> quantity, ok |-> TRUE,
                                             held |-> best \in DOMAIN exch,
                                             Price |-> px, AvgPrice |-> reported])]
    /\ pc' = "done"
    /\ UNCHANGED <<now, dIn, dOut, sto>>

\* Tick, lines 246-282: PlaceEntryOrder succeeds, filling at fill, and
\* returns the average fill price, or 0 when the response carries none.
TickEntry ==
    /\ pc = "synced"
    /\ \E opps \in Rankings \ {<<>>}, px \in Prices, fill \in Prices :
          LET best == opps[1]
              marginUSDT == GetStepSize(Cfg, 0)
              quantity == EntryQuantity(px)
          IN  /\ best \notin DOMAIN ActiveTrades
              /\ \E filled \in Filled(exch, best, quantity, fill), reported \in {0, fill} :
                    LET avgPrice == IF reported = 0 THEN px ELSE reported
                        newPos == MartingalePosition(best, 1, avgPrice, quantity,
                                                     marginUSDT, now)
                        sm == UpdatePosition(
                                 StateManager(ActiveTrades, file), newPos)
                    IN  /\ exch' = Put(exch, best, filled)
                        /\ ActiveTrades' = sm.ActiveTrades
                        /\ file' = sm.file
                        /\ \E seen \in [DOMAIN ActiveTrades -> Prices] :
                              tick' = [tick EXCEPT
                                         !.seen = seen, !.opps = opps,
                                         !.outcome = "opened",
                                         !.log = IF reported = 0
                                                 THEN Append(@, "API returned 0 fill price")
                                                 ELSE @,
                                         !.orders = Append(@,
                                            [Symbol |-> best, Side |-> "SELL",
                                             Quantity |-> quantity, ok |-> TRUE,
                                             held |-> best \in DOMAIN exch,
                                             Price |-> px, AvgPrice |-> reported])]
    /\ pc' = "done"
    /\ UNCHANGED <<now, dIn, dOut, sto>>

\* Tick returns; Run waits for the next timer firing (lines 79-84).
TickReturn ==
    /\ pc = "done"
    /\ pc' = "wait"
    /\ tick' = NoTick
    /\ UNCHANGED <<ActiveTrades, file, exch, now, dIn, dOut, sto>>

\* The world outside the process: a position is opened, resized or closed
\* on the exchange (fills, take-profit, stop-loss, liquidation, the user),
\* between two ticks or between a tick's sync and its entry.
ExchangeChange ==
    /\ pc \in {"wait", "synced"}
    /\ \E sym \in Symbols :
          \/ /\ sym \in DOMAIN exch
             /\ exch' = Drop(exch, sym)
          \/ \E p \in ExchPosition : exch' = Put(exch, sym, p)
    /\ exch' # exch
    /\ UNCHANGED <<ActiveTrades, file, now, pc, tick, dIn, dOut, sto>>

\* A minute passes.
Advance ==
    /\ pc = "wait"
    /\ now < MaxTime
    /\ now' = now + 1
    /\ UNCHANGED <<ActiveTrades, file, exch, pc, tick, dIn, dOut, sto>>

Next ==
    \/ TickSync
    \/ TickSyncFailed
    \/ TickScanFailed
    \/ TickNoOpportunity
    \/ TickAlreadyTrading
    \/ TickMarketDataFailed
    \/ TickOrderFailed
    \/ TickEntry
    \/ TickReturn
    \/ ExchangeChange
    \/ Advance

Spec == Init /\ [][Next]_vars

\* The step of Tick on which GetAllOpenPositions has returned without error
\* (line 94, the else branch of the test of err).
FetchSucceeds == pc = "wait" /\ pc' = "synced" /\ tick'.fetchOk

\* The ticker keeps firing and Run calls Tick on each firing (lines 79-84),
\* so a tick that has ended is followed by the wait for the next one and a
\* tick begins again and again; and the position fetch succeeds again and
\* again.
SpecLive ==
    /\ Spec
    /\ WF_vars(TickReturn)
    /\ []<>(pc # "wait")
    /\ []<><<FetchSucceeds>>_vars

----------------------------------------------------------------------------
(* The step-add decision functions on their own: one evaluation of         *)
(* CalculateNextStep and CheckSafetyConditions for a position of the       *)
(* ledger, on inputs drawn from the sets below.                            *)

\* time.Since(pos.LastAddTime) runs 0..MaxElapsed minutes
MaxElapsed == 3

\* positions at rungs 0..MaxRung (the configuration has 5 rungs)
MaxRung == 6

DecisionEntryPrices == {50, 100}
DecisionPrices == {51, 52, 53, 54} \cup (101..109)
Volatilities == 0..3
RSIs == {0, 90, 95}
\* Safety.MaxVolMultiplier 0.5, 1.5, 2.0
MaxVolMultipliers2 == {1, 3, 4}

DecisionInputs ==
    [ s            : {[Cfg EXCEPT !.MaxVolMultiplier2 = m] : m \in MaxVolMultipliers2},
      pos          : {MartingalePosition("XYZUSDT", step, entry, 4, 40, 0) :
                         step \in 0..MaxRung, entry \in DecisionEntryPrices},
      currentPrice : DecisionPrices,
      volatility   : Volatilities,
      rsi          : RSIs,
      t            : 0..MaxElapsed ]

InitStep ==
    /\ dIn \in DecisionInputs
    /\ dOut = NoOutput
    /\ ActiveTrades = Put(EmptyMap, dIn.pos.Symbol, dIn.pos)
    /\ file = MarshalIndent(ActiveTrades)
    /\ exch = EmptyMap
    /\ now = dIn.t
    /\ pc = "wait"
    /\ tick = NoTick
    /\ sto = NoStore

\* Both functions read their arguments and return; neither writes to the
\* position it is given, to the ledger, or calls the exchange.
Evaluate ==
    /\ dOut = NoOutput
    /\ dIn # NoInput
    /\ dOut' = [ next   |-> CalculateNextStep(dIn.s, ActiveTrades[dIn.pos.Symbol],
                                              dIn.currentPrice, dIn.volatility, now),
                 safety |-> CheckSafetyConditions(dIn.s, dIn.rsi,
                                                  ActiveTrades[dIn.pos.Symbol].Step) ]
    /\ UNCHANGED <<ActiveTrades, file, exch, now, pc, tick, dIn, sto>>

NextStep == Evaluate

SpecStep == InitStep /\ [][NextStep]_vars

----------------------------------------------------------------------------
(* InferStepFromMargin on its own.  Margins and step sizes are in tenths   *)
(* of a USDT here (the comparison is the same at every scale), so that     *)
(* 10.5 USDT is 105.                                                       *)

\* margins run 0..MaxMargin tenths of a USDT
MaxMargin == 1700

\* The step sizes [10, 10, 20] and those of Cfg, in tenths.
InferConfigs ==
    { [Cfg EXCEPT !.Steps = <<100, 100, 200>>],
      [Cfg EXCEPT !.Steps = <<100, 100, 200, 400, 800>>] }

InitInfer ==
    /\ dIn \in [s : InferConfigs, marginUSDT : 0..MaxMargin]
    /\ dOut = NoOutput
    /\ ActiveTrades = EmptyMap
    /\ file = MarshalIndent(ActiveTrades)
    /\ exch = EmptyMap
    /\ now = 0
    /\ pc = "wait"
    /\ tick = NoTick
    /\ sto = NoStore

EvaluateInfer ==
    /\ dOut = NoOutput
    /\ dOut' = [step |-> InferStepFromMargin(dIn.s, dIn.marginUSDT)]
    /\ UNCHANGED <<ActiveTrades, file, exch, now, pc, tick, dIn, sto>>

NextInfer == EvaluateInfer

SpecInfer == InitInfer /\ [][NextInfer]_vars

----------------------------------------------------------------------------
(* The process and its ledger file.  The process starts (NewBotEngine      *)
(* loads the file, Run begins), the engine calls the ledger, and the       *)
(* process may crash anywhere and be started again.  A ledger call is      *)
(* taken apart at the points where a crash makes a difference:             *)
(*   "call"   the engine has made the call                                 *)
(*   "save"   the map is changed, SaveState begins                         *)
(*   "write"  os.WriteFile has opened the file, which truncates it         *)
(* sto records                                                             *)
(*   op, arg    the ledger call in progress or last completed              *)
(*   ret        what it returned: "nil" or "err"; "" while in progress     *)
(*   data       the bytes SaveState is writing                             *)
(*   load       what LoadState returned to this process                    *)
(*   crashedIn  where the previous process crashed, until the next call    *)
(*   before     the map the previous process had when it crashed           *)
(*   log        the error or warning logged since the process started or   *)
(*              the call began; "" when there is none                      *)

Running == {"idle", "call", "save", "write"}

StoreStart ==
    [op |-> "", arg |-> NoInput, ret |-> "", data |-> Absent, load |-> "",
     crashedIn |-> "", before |-> EmptyMap, log |-> ""]

\* The records the engine upserts: a fresh entry and a deeper adoption.
StorePositions ==
    UNION { { MartingalePosition(sym, 1, 10, 2, 10, 0),
              MartingalePosition(sym, 3, 20, 12, 40, 1) } : sym \in Symbols }

\* What may be on disk before the first start: nothing, a document an
\* earlier run wrote, or one cut short.
StoreFiles ==
    {Absent} \cup {MarshalIndent(l) : l \in LoadedLedgers}
             \cup UNION {Prefixes(MarshalIndent(l)) : l \in LoadedLedgers}

InitStore ==
    /\ ActiveTrades = EmptyMap
    /\ file \in StoreFiles
    /\ pc = "boot"
    /\ sto = StoreStart
    /\ exch = EmptyMap
    /\ now = 0
    /\ tick = NoTick
    /\ dIn = NoInput
    /\ dOut = NoOutput

\* NewBotEngine (engine.go 47-66) and main's engine.Run(): the state is
\* loaded into a new StateManager; a failure is logged as a warning and
\* the engine is built and run all the same.
NewBotEngine ==
    /\ pc = "boot"
    /\ LET l == LoadState(file, EmptyMap)
       IN  /\ ActiveTrades' = l.trades
           /\ sto' = [sto EXCEPT !.load = IF l.err = "" THEN "nil" ELSE l.err,
                                 !.log = IF l.err = "" THEN ""
                                         ELSE "Failed to load state"]
    /\ pc' = "idle"
    /\ UNCHANGED <<file, exch, now, tick, dIn, dOut>>

\* The engine calls UpdatePosition with a new record (engine.go 140-149,
\* 273-281).
EngineUpdatePosition ==
    /\ pc = "idle"
    /\ \E pos \in StorePositions :
          sto' = [sto EXCEPT !.op = "UpdatePosition", !.arg = pos, !.ret = "",
                             !.crashedIn = "", !.before = EmptyMap,
                             !.log = ""]
    /\ pc' = "call"
    /\ UNCHANGED <<ActiveTrades, file, exch, now, tick, dIn, dOut>>

\* The engine takes the stored record from the map, sets its entry price
\* and calls UpdatePosition with it (engine.go 110-114).
EngineSyncEntryPrice ==
    /\ pc = "idle"
    /\ \E sym \in DOMAIN ActiveTrades, entryPrice \in Prices :
          /\ ActiveTrades[sym].EntryPrice # entryPrice
          /\ ActiveTrades' = [ActiveTrades EXCEPT ![sym].EntryPrice = entryPrice]
          /\ sto' = [sto EXCEPT !.op = "UpdatePosition", !.arg = ActiveTrades'[sym],
                                !.ret = "", !.crashedIn = "", !.before = EmptyMap,
                             !.log = ""]
    /\ pc' = "call"
    /\ UNCHANGED <<file, exch, now, tick, dIn, dOut>>

\* The engine calls RemovePosition (engine.go 159-163).
EngineRemovePosition ==
    /\ pc = "idle"
    /\ \E sym \in DOMAIN ActiveTrades :
          sto' = [sto EXCEPT !.op = "RemovePosition", !.arg = [Symbol |-> sym],
                             !.ret = "", !.crashedIn = "", !.before = EmptyMap,
                             !.log = ""]
    /\ pc' = "call"
    /\ UNCHANGED <<ActiveTrades, file, exch, now, tick, dIn, dOut>>

\* UpdatePosition, lines 60-62: the map is set under the write lock.
UpdatePositionLocked ==
    /\ pc = "call"
    /\ sto.op = "UpdatePosition"
    /\ ActiveTrades' = Put(ActiveTrades, sto.arg.Symbol, sto.arg)
    /\ pc' = "save"
    /\ UNCHANGED <<file, exch, now, tick, dIn, dOut, sto>>

\* ClearPosition, lines 68-70: the key is deleted under the write lock.
ClearPositionLocked ==
    /\ pc = "call"
    /\ sto.op = "RemovePosition"
    /\ ActiveTrades' = Drop(ActiveTrades, sto.arg.Symbol)
    /\ pc' = "save"
    /\ UNCHANGED <<file, exch, now, tick, dIn, dOut, sto>>

\* SaveState, lines 47-55: the map is marshalled and os.WriteFile opens
\* the file with O_CREATE|O_TRUNC.
SaveStateOpen ==
    /\ pc = "save"
    /\ sto' = [sto EXCEPT !.data = MarshalIndent(ActiveTrades)]
    /\ file' = [exists |-> TRUE, complete |-> FALSE, entries |-> <<>>]
    /\ pc' = "write"
    /\ UNCHANGED <<ActiveTrades, exch, now, tick, dIn, dOut>>

\* The open failing and the caller taking the upserted record out of the
\* map again before it returns the error.
SaveStateOpenFailsUndone ==
    /\ pc = "save"
    /\ sto' = [sto EXCEPT !.ret = "err"]
    /\ ActiveTrades' = IF sto.op = "UpdatePosition"
                       THEN Drop(ActiveTrades, sto.arg.Symbol)
                       ELSE ActiveTrades
    /\ pc' = "idle"
    /\ UNCHANGED <<file, exch, now, tick, dIn, dOut>>

\* SaveState, line 55: the file cannot be opened; the error is returned.
SaveStateOpenFails ==
    /\ pc = "save"
    /\ sto' = [sto EXCEPT !.ret = "err"]
    /\ pc' = "idle"
    /\ UNCHANGED <<ActiveTrades, file, exch, now, tick, dIn, dOut>>

\* Line 55 returning nil with the bytes still to be written.
SaveStateWriteBehind ==
    /\ pc = "write"
    /\ sto' = [sto EXCEPT !.ret = "nil"]
    /\ pc' = "idle"
    /\ UNCHANGED <<ActiveTrades, file, exch, now, tick, dIn, dOut>>

\* SaveState, line 55: the bytes are written, nil is returned.
SaveStateWrite ==
    /\ pc = "write"
    /\ file' = sto.data
    /\ sto' = [sto EXCEPT !.ret = "nil"]
    /\ pc' = "idle"
    /\ UNCHANGED <<ActiveTrades, exch, now, tick, dIn, dOut>>

\* SaveState, line 55: the write stops early (disk full); the error is
\* returned.
SaveStateWriteFails ==
    /\ pc = "write"
    /\ file' \in Prefixes(sto.data)
    /\ sto' = [sto EXCEPT !.ret = "err"]
    /\ pc' = "idle"
    /\ UNCHANGED <<ActiveTrades, exch, now, tick, dIn, dOut>>

\* The process dies: its memory is gone, the file is what has been written
\* so far.
Crash ==
    /\ pc \in Running
    /\ file' \in (IF pc = "write" THEN Prefixes(sto.data) ELSE {file})
    /\ ActiveTrades' = EmptyMap
    /\ sto' = [sto EXCEPT !.crashedIn = pc, !.before = ActiveTrades, !.load = "",
                          !.log = ""]
    /\ pc' = "boot"
    /\ UNCHANGED <<exch, now, tick, dIn, dOut>>

NextStore ==
    \/ NewBotEngine
    \/ EngineUpdatePosition
    \/ EngineSyncEntryPrice
    \/ EngineRemovePosition
    \/ UpdatePositionLocked
    \/ ClearPositionLocked
    \/ SaveStateOpen
    \/ SaveStateOpenFails
    \/ SaveStateWrite
    \/ SaveStateWriteFails
    \/ Crash

SpecStore == InitStore /\ [][NextStore]_vars

----------------------------------------------------------------------------
(* The StateManager under concurrent callers.  The program itself calls    *)
(* it from one goroutine; here two goroutines call LoadState,              *)
(* UpdatePosition and ClearPosition at will, and every operation is taken  *)
(* apart at its lock operations.  sto is [mu, g]:                          *)
(*   mu    the RWMutex: w the goroutine holding the write lock (0: none),  *)
(*         r the goroutines holding a read lock                            *)
(*   g     per goroutine: op and arg of its call, data it is writing, and  *)
(*         at where it is in the call:                                     *)
(*           "idle"     not in a call                                      *)
(*           "lock"     before mu.Lock()                                   *)
(*           "locked"   mu.Lock() returned, the map not yet touched        *)
(*           "written"  the map changed, before mu.Unlock()                *)
(*           "rlock"    in SaveState before mu.RLock()                     *)
(*           "rlocked"  mu.RLock() returned, before MarshalIndent          *)
(*           "writing"  the file opened, before the bytes are written      *)

Goroutines == {1, 2}

IdleGoroutine == [at |-> "idle", op |-> "", arg |-> NoInput, data |-> Absent]

\* The records the concurrent callers upsert.
ConcPositions == { MartingalePosition(sym, 1, 10, 2, 10, 0) : sym \in Symbols }

\* sync.RWMutex: Lock waits for the writer only.
CanLockShared(mu) == mu.w = 0

\* sync.RWMutex: Lock waits until there is no writer and no reader.
CanLock(mu) == mu.w = 0 /\ mu.r = {}

\* sync.RWMutex: RLock waits until there is no writer.
CanRLock(mu) == mu.w = 0

InitConc ==
    /\ ActiveTrades = EmptyMap
    /\ file = Absent
    /\ sto = [mu |-> [w |-> 0, r |-> {}], g |-> [g \in Goroutines |-> IdleGoroutine]]
    /\ pc = "idle"
    /\ exch = EmptyMap
    /\ now = 0
    /\ tick = NoTick
    /\ dIn = NoInput
    /\ dOut = NoOutput

\* A goroutine calls LoadState, UpdatePosition or ClearPosition.
ConcCall(g) ==
    /\ sto.g[g].at = "idle"
    /\ \/ sto' = [sto EXCEPT !.g[g] = [IdleGoroutine EXCEPT !.at = "lock",
                                                            !.op = "LoadState"]]
       \/ \E pos \in ConcPositions :
             sto' = [sto EXCEPT !.g[g] = [IdleGoroutine EXCEPT !.at = "lock",
                                             !.op = "UpdatePosition", !.arg = pos]]
       \/ \E sym \in Symbols :
             sto' = [sto EXCEPT !.g[g] = [IdleGoroutine EXCEPT !.at = "lock",
                                             !.op = "ClearPosition",
                                             !.arg = [Symbol |-> sym]]]
    /\ UNCHANGED <<ActiveTrades, file, exch, now, pc, tick, dIn, dOut>>

\* sm.mu.Lock() (lines 27, 60, 68)
ConcLock(g) ==
    /\ sto.g[g].at = "lock"
    /\ CanLock(sto.mu)
    /\ sto' = [sto EXCEPT !.mu.w = g, !.g[g].at = "locked"]
    /\ UNCHANGED <<ActiveTrades, file, exch, now, pc, tick, dIn, dOut>>

\* The map is changed: lines 30-40 (the file is read and unmarshalled
\* into the map), 61, 69.
ConcMutate(g) ==
    /\ sto.g[g].at = "locked"
    /\ ActiveTrades' =
          CASE sto.g[g].op = "LoadState" -> LoadState(file, ActiveTrades).trades
            [] sto.g[g].op = "UpdatePosition" ->
                  Put(ActiveTrades, sto.g[g].arg.Symbol, sto.g[g].arg)
            [] sto.g[g].op = "ClearPosition" ->
                  Drop(ActiveTrades, sto.g[g].arg.Symbol)
    /\ sto' = [sto EXCEPT !.g[g].at = "written"]
    /\ UNCHANGED <<file, exch, now, pc, tick, dIn, dOut>>

\* sm.mu.Unlock() (lines 28, 62, 70); LoadState returns, the others go on
\* to SaveState.
ConcUnlock(g) ==
    /\ sto.g[g].at = "written"
    /\ sto' = [sto EXCEPT !.mu.w = 0,
                          !.g[g] = IF sto.g[g].op = "LoadState"
                                   THEN IdleGoroutine
                                   ELSE [@ EXCEPT !.at = "rlock"]]
    /\ UNCHANGED <<ActiveTrades, file, exch, now, pc, tick, dIn, dOut>>

\* SaveState, line 47: sm.mu.RLock()
ConcRLock(g) ==
    /\ sto.g[g].at = "rlock"
    /\ CanRLock(sto.mu)
    /\ sto' = [sto EXCEPT !.mu.r = @ \cup {g}, !.g[g].at = "rlocked"]
    /\ UNCHANGED <<ActiveTrades, file, exch, now, pc, tick, dIn, dOut>>

\* SaveState, lines 50-55: the map is marshalled and the file opened,
\* which truncates it.
ConcMarshal(g) ==
    /\ sto.g[g].at = "rlocked"
    /\ sto' = [sto EXCEPT !.g[g].at = "writing",
                          !.g[g].data = MarshalIndent(ActiveTrades)]
    /\ file' = [exists |-> TRUE, complete |-> FALSE, entries |-> <<>>]
    /\ UNCHANGED <<ActiveTrades, exch, now, pc, tick, dIn, dOut>>

\* SaveState, lines 55 and 48: the bytes are written, the read lock is
\* released, the call returns.
ConcWrite(g) ==
    /\ sto.g[g].at = "writing"
    /\ file' = sto.g[g].data
    /\ sto' = [sto EXCEPT !.mu.r = @ \ {g}, !.g[g] = IdleGoroutine]
    /\ UNCHANGED <<ActiveTrades, exch, now, pc, tick, dIn, dOut>>

NextConc ==
    \E g \in Goroutines :
        \/ ConcCall(g)
        \/ ConcLock(g)
        \/ ConcMutate(g)
        \/ ConcUnlock(g)
        \/ ConcRLock(g)
        \/ ConcMarshal(g)
        \/ ConcWrite(g)

SpecConc == InitConc /\ [][NextConc]_vars

----------------------------------------------------------------------------
(* main and BotEngine.Run: the process from its start to the timer loop.   *)
(* dIn is the config.yaml on disk.  pc is                                  *)
(*   "main"   before LoadConfig                                            *)
(*   "fatal"  log.Fatalf has ended the process                             *)
(*   "first"  the engine is built, Run has not yet made its first Tick     *)
(*   "tick"   Run is inside a call of Tick                                 *)
(*   "recv"   Run waits on ticker.C                                        *)
(*   "exit"   Run has left its loop                                        *)
(* sto records                                                             *)
(*   cfg      the configuration LoadConfig returned                        *)
(*   running  BotEngine.Running                                            *)
(*   timer    the number of firings waiting in ticker.C (it holds one)     *)
(*   active   the number of calls of Tick in progress                      *)
(*   phase    what the tick in progress is doing: "fetch", "scan" and      *)
(*            "order" are calls of the exchange, "write" and "record" are  *)
(*            UpdatePosition writing the file                              *)
(*   hung     the exchange call in progress will never return              *)

\* The step lists a config.yaml may hold.
ConfigLists == {<<10>>, <<10, 10>>}

\* config.yaml: missing, not YAML, or any three step lists.
ConfigFiles ==
    { [readable |-> FALSE, parses |-> FALSE, Steps |-> <<>>, StepDistances |-> <<>>,
       StepWaitTimes |-> <<>>],
      [readable |-> TRUE, parses |-> FALSE, Steps |-> <<>>, StepDistances |-> <<>>,
       StepWaitTimes |-> <<>>] }
    \cup [readable : {TRUE}, parses : {TRUE}, Steps : ConfigLists,
          StepDistances : ConfigLists, StepWaitTimes : ConfigLists]

\* config.LoadConfig, lines 174-196: the file is read and unmarshalled;
\* nothing else is checked.
LoadConfig(f) ==
    IF ~f.readable
    THEN [err |-> "failed to read config.yaml", cfg |-> NoInput]
    ELSE IF ~f.parses
    THEN [err |-> "failed to parse config.yaml", cfg |-> NoInput]
    ELSE [err |-> "", cfg |-> [Steps |-> f.Steps, StepDistances |-> f.StepDistances,
                              StepWaitTimes |-> f.StepWaitTimes]]

RunStart ==
    [cfg |-> NoInput, running |-> FALSE, timer |-> 0, active |-> 0, phase |-> "",
     hung |-> FALSE]

InPhase == {"fetch", "write", "scan", "order", "record"}
ExchangeCalls == {"fetch", "scan", "order"}

InitRun ==
    /\ dIn \in ConfigFiles
    /\ pc = "main"
    /\ sto = RunStart
    /\ ActiveTrades = EmptyMap
    /\ file = Absent
    /\ exch = EmptyMap
    /\ now = 0
    /\ tick = NoTick
    /\ dOut = NoOutput

\* main, lines 17-53: LoadConfig, NewBotEngine (Running: true), the
\* connectivity check, then engine.Run().
Main ==
    /\ pc = "main"
    /\ LET l == LoadConfig(dIn)
       IN  IF l.err # ""
           THEN /\ pc' = "fatal"
                /\ UNCHANGED sto
           ELSE \/ /\ pc' = "first"
                   /\ sto' = [sto EXCEPT !.cfg = l.cfg, !.running = TRUE]
                \/ /\ pc' = "fatal"
                   /\ sto' = [sto EXCEPT !.cfg = l.cfg]
    /\ UNCHANGED <<ActiveTrades, file, exch, now, tick, dIn, dOut>>

\* Run, line 77: the initial Tick.
RunFirstTick ==
    /\ pc = "first"
    /\ pc' = "tick"
    /\ sto' = [sto EXCEPT !.active = @ + 1, !.phase = "fetch"]
    /\ UNCHANGED <<ActiveTrades, file, exch, now, tick, dIn, dOut>>

\* The ticker fires (line 73); a firing that finds ticker.C full is dropped.
TimerFires ==
    /\ pc \in {"tick", "recv"}
    /\ sto.timer = 0
    /\ sto' = [sto EXCEPT !.timer = 1]
    /\ UNCHANGED <<ActiveTrades, file, exch, now, pc, tick, dIn, dOut>>

\* Lines 79-83 with the tick started in a goroutine of its own.
RunLoopTickAsync ==
    /\ pc \in {"recv", "tick"}
    /\ sto.timer = 1
    /\ sto.running
    /\ sto' = [sto EXCEPT !.timer = 0, !.active = @ + 1, !.phase = "fetch"]
    /\ pc' = "tick"
    /\ UNCHANGED <<ActiveTrades, file, exch, now, tick, dIn, dOut>>

\* Run, lines 79-83: a firing is received, Running is true, Tick is called.
RunLoopTick ==
    /\ pc = "recv"
    /\ sto.timer = 1
    /\ sto.running
    /\ sto' = [sto EXCEPT !.timer = 0, !.active = @ + 1, !.phase = "fetch"]
    /\ pc' = "tick"
    /\ UNCHANGED <<ActiveTrades, file, exch, now, tick, dIn, dOut>>

\* Run, lines 79-82: a firing is received, Running is false, the loop ends.
RunLoopBreak ==
    /\ pc = "recv"
    /\ sto.timer = 1
    /\ ~sto.running
    /\ sto' = [sto EXCEPT !.timer = 0]
    /\ pc' = "exit"
    /\ UNCHANGED <<ActiveTrades, file, exch, now, tick, dIn, dOut>>

\* Tick: the call or file write in progress returns and the tick goes on
\* to its next one (lines 94, 114-149, 205, 260, 281).
RunTickStep ==
    /\ pc = "tick"
    /\ ~sto.hung
    /\ \E next \in InPhase :
          /\ \/ sto.phase = "fetch" /\ next \in {"write", "scan"}
             \/ sto.phase = "write" /\ next = "scan"
             \/ sto.phase = "scan" /\ next = "order"
             \/ sto.phase = "order" /\ next = "record"
          /\ sto' = [sto EXCEPT !.phase = next]
    /\ UNCHANGED <<ActiveTrades, file, exch, now, pc, tick, dIn, dOut>>

\* Tick: an exchange call never returns; the context passed to it is
\* context.Background() (lines 77, 83), without deadline.
RunTickHangs ==
    /\ pc = "tick"
    /\ ~sto.hung
    /\ sto.phase \in ExchangeCalls
    /\ sto' = [sto EXCEPT !.hung = TRUE]
    /\ UNCHANGED <<ActiveTrades, file, exch, now, pc, tick, dIn, dOut>>

\* Tick returns (lines 208, 212, 223, 230, 237, 263, 283).
RunTickReturn ==
    /\ pc = "tick"
    /\ ~sto.hung
    /\ sto.phase \in {"scan", "order", "record"}
    /\ sto' = [sto EXCEPT !.active = @ - 1, !.phase = ""]
    /\ pc' = "recv"
    /\ UNCHANGED <<ActiveTrades, file, exch, now, tick, dIn, dOut>>

\* The stop signal: Running is set to false (the field of line 27).
StopSignal ==
    /\ pc \in {"first", "tick", "recv"}
    /\ sto.running
    /\ sto' = [sto EXCEPT !.running = FALSE]
    /\ UNCHANGED <<ActiveTrades, file, exch, now, pc, tick, dIn, dOut>>

NextRun ==
    \/ Main
    \/ RunFirstTick
    \/ TimerFires
    \/ RunLoopTick
    \/ RunLoopBreak
    \/ RunTickStep
    \/ RunTickHangs
    \/ RunTickReturn
    \/ StopSignal

SpecRun == InitRun /\ [][NextRun]_vars

\* The ticker keeps firing and the goroutine of Run keeps running.
SpecRunFair ==
    /\ SpecRun
    /\ WF_vars(TimerFires)
    /\ WF_vars(RunFirstTick \/ RunLoopTick \/ RunLoopBreak \/ RunTickStep \/ RunTickReturn)

----------------------------------------------------------------------------
(* CalculateDynamicTarget on its own.  The base take-profit is in          *)
(* hundredths of a percent (1.5% is 150), the multiplier in tenths, so     *)
(* the target percentage is in thousandths of a percent (1.8% is 1800)     *)
(* and the target price in 1/100000 of a USDT (97.75 is 9775000).          *)

\* steps run 1..MaxTPStep
MaxTPStep == 10

\* avgEntry * (1 - (baseTP * multiplier) / 100), thresholds off by one.
CalculateDynamicTargetLate(avgEntry, step, takeProfit100) ==
    LET multiplier10 == IF step > 8 THEN 15 ELSE IF step > 4 THEN 12 ELSE 10
        targetPercent1000 == takeProfit100 * multiplier10
    IN  [targetPercent1000 |-> targetPercent1000,
         targetPrice100000 |-> avgEntry * (100000 - targetPercent1000)]

\* dynamic_tp.go 9-31
CalculateDynamicTarget(avgEntry, step, takeProfit100) ==
    LET multiplier10 == IF step >= 8 THEN 15 ELSE IF step >= 4 THEN 12 ELSE 10
        targetPercent1000 == takeProfit100 * multiplier10
    IN  [targetPercent1000 |-> targetPercent1000,
         targetPrice100000 |-> avgEntry * (100000 - targetPercent1000)]

TPEntryPrices == {20, 50, 100}
TakeProfits100 == {100, 150, 200}

InitTP ==
    /\ dIn \in [avgEntry : TPEntryPrices, step : 1..MaxTPStep,
                takeProfit100 : TakeProfits100, trades : LoadedLedgers]
    /\ dOut = NoOutput
    /\ ActiveTrades = dIn.trades
    /\ file = MarshalIndent(ActiveTrades)
    /\ exch = EmptyMap
    /\ now = 0
    /\ pc = "wait"
    /\ tick = NoTick
    /\ sto = NoStore

EvaluateTP ==
    /\ dOut = NoOutput
    /\ dOut' = CalculateDynamicTarget(dIn.avgEntry, dIn.step, dIn.takeProfit100)
    /\ UNCHANGED <<ActiveTrades, file, exch, now, pc, tick, dIn, sto>>

NextTP == EvaluateTP

SpecTP == InitTP /\ [][NextTP]_vars

----------------------------------------------------------------------------
(* Properties.                                                             *)

Ledger == DOMAIN ActiveTrades

\* The presumed margin of an exchange position, leverage 0 counted as 1.
MarginOf(p) ==
    (Abs(p.PositionAmt) * p.EntryPrice) \div (IF p.Leverage = 0 THEN 1 ELSE p.Leverage)

\* Sum of the configured step sizes of rungs 1..step.
RECURSIVE Cumulative(_)
Cumulative(step) == IF step <= 0 THEN 0 ELSE Cfg.Steps[step] + Cumulative(step - 1)

\* C1: after the reconciliation pass of a tick whose position fetch
\* succeeded, the ledger holds exactly the symbols of the snapshot, and
\* every snapshot symbol that was not in the ledger before has the step
\* inferred from its presumed margin.
C1_ReconciledLedgerMatchesSnapshot ==
    (pc = "synced" /\ tick.fetchOk) =>
        /\ Ledger = ActiveSymbols(tick.snap)
        /\ \A i \in 1..Len(tick.snap) :
              LET p == tick.snap[i]
              IN  p.Symbol \notin tick.pre =>
                     ActiveTrades[p.Symbol].Step = InferStepFromMargin(Cfg, MarginOf(p))

\* C1 witness: a pass that has adopted one symbol and removed another.
C1_Witness ==
    /\ pc = "synced"
    /\ tick.fetchOk
    /\ \E a \in Ledger : a \notin tick.pre /\ ActiveTrades[a].Step > 1
    /\ \E r \in tick.pre : r \notin Ledger

\* C2 (as claimed): every entry order of a tick is placed after the ledger
\* was reconciled in that tick, and never for a symbol the exchange holds.
C2_EntryOnlyAfterReconcile ==
    \A i \in 1..Len(tick.orders) : tick.fetchOk /\ ~tick.orders[i].held

\* C3 (as claimed): while a record stays in the ledger its step never
\* decreases.
C3_StepNeverDecreases ==
    [][\A sym \in Ledger :
          sym \in DOMAIN ActiveTrades' =>
             ActiveTrades'[sym].Step >= ActiveTrades[sym].Step]_vars

\* C4: no position of the ledger is at a step above the number of
\* configured rungs.
C4_StepAtMostMax ==
    \A sym \in Ledger : ActiveTrades[sym].Step <= Len(Cfg.Steps)

\* C4 witness: the ledger holds a position opened by the engine (step 1) and
\* an adopted one whose margin exceeds all rungs together.
C4_Witness ==
    /\ \E sym \in Ledger :
          ActiveTrades[sym].Step = 1 /\ ActiveTrades[sym].TotalMargin = Cfg.Steps[1]
    /\ \E sym \in Ledger :
          /\ ActiveTrades[sym].Step = Len(Cfg.Steps)
          /\ ActiveTrades[sym].TotalMargin > Cumulative(Len(Cfg.Steps))

\* C5 (as claimed): every position's TotalMargin is the sum of the step
\* sizes of rungs 1..Step, within the 0.95 tolerance factor on either side.
C5_MarginConsistentWithStep ==
    \A sym \in Ledger :
       LET pos == ActiveTrades[sym]
           c   == Cumulative(pos.Step)
       IN  /\ 95 * pos.TotalMargin <= 100 * c
           /\ 95 * c <= 100 * pos.TotalMargin

\* C6 (as claimed): in every tick, every position for which the step-add
\* decision passes at the price the tick has got for it (no volatility
\* figure, and at a step where the circuit breaker passes whatever the RSI)
\* gets an order of the next rung's size, and on its success the position
\* is one step higher with quantity and margin increased.
C6_StepAddInEveryTick ==
    [][(pc = "synced" /\ pc' = "done") =>
          \A sym \in Ledger :
             LET pos == ActiveTrades[sym]
                 px  == tick'.seen[sym]
                 passes ==
                    /\ CalculateNextStep(Cfg, pos, px, 0, now).shouldAdd
                    /\ \A rsi \in RSIs : CheckSafetyConditions(Cfg, rsi, pos.Step).ok
             IN  passes =>
                    \E i \in 1..Len(tick'.orders) :
                       LET o == tick'.orders[i]
                       IN  /\ o.Symbol = sym
                           /\ o.Quantity * px = GetStepSize(Cfg, pos.Step) * Cfg.Leverage
                           /\ o.ok =>
                                 /\ ActiveTrades'[sym].Step = pos.Step + 1
                                 /\ ActiveTrades'[sym].Quantity > pos.Quantity
                                 /\ ActiveTrades'[sym].TotalMargin > pos.TotalMargin]_vars

C8_ShortCircuitRefusals ==
    (dOut # NoOutput) =>
        LET pos == dIn.pos
            n   == Len(dIn.s.Steps)
        IN  /\ pos.Step >= n =>
                  dOut.next = [shouldAdd |-> FALSE, reason |-> "Max steps reached"]
            /\ (pos.Step < n /\ dIn.t - pos.LastAddTime < At(dIn.s.StepWaitTimes, pos.Step)) =>
                  dOut.next = [shouldAdd |-> FALSE, reason |-> "Waiting for cooldown"]
            /\ ~dOut.next.shouldAdd =>
                  /\ ActiveTrades = Put(EmptyMap, pos.Symbol, pos)
                  /\ file = MarshalIndent(ActiveTrades)
                  /\ exch = EmptyMap
                  /\ tick.orders = <<>>

\* C8 witness: a cooldown refusal at a price far above the trigger.
C8_Witness ==
    /\ dOut # NoOutput
    /\ dIn.pos.Step = 3
    /\ dIn.pos.EntryPrice = 100
    /\ dIn.currentPrice = 109
    /\ dIn.t = 1
    /\ dOut.next.reason = "Waiting for cooldown"

\* C9 (as claimed): at step >= 4 with the RSI above the circuit-breaker
\* limit the step-add decision is a refusal whatever the price; below step
\* 4 the circuit breaker passes whatever the RSI.
C9_CircuitBreakerVetoes ==
    (dOut # NoOutput) =>
        /\ (dIn.pos.Step >= 4 /\ dIn.rsi > dIn.s.RSICircuitBreaker) => ~dOut.next.shouldAdd
        /\ dIn.pos.Step < 4 => dOut.safety.ok

RECURSIVE CumulativeOf(_, _)
CumulativeOf(steps, k) == IF k <= 0 THEN 0 ELSE steps[k] + CumulativeOf(steps, k - 1)

\* C11: InferStepFromMargin returns the first rung (counted from 1) whose
\* cumulative step size divided by 0.95 is at least the margin, and the
\* last rung when there is none; with step sizes [10, 10, 20] the margins
\* 9.0, 10.5, 21.0 and 50.0 give 1, 1, 2 and 3.
C11_InferStep ==
    (dOut # NoOutput) =>
        LET steps == dIn.s.Steps
            n == Len(steps)
            m == dIn.marginUSDT
            r == dOut.step
            Fits(i) == 95 * m <= 100 * CumulativeOf(steps, i)
        IN  /\ r \in 1..n
            /\ (\E i \in 1..n : Fits(i)) =>
                  (Fits(r) /\ \A j \in 1..(r - 1) : ~Fits(j))
            /\ (\A i \in 1..n : ~Fits(i)) => r = n
            /\ steps = <<100, 100, 200>> =>
                  /\ m = 90 => r = 1
                  /\ m = 105 => r = 1
                  /\ m = 210 => r = 2
                  /\ m = 500 => r = 3

\* C11 witness: margin 10.5 with step sizes [10, 10, 20] gives rung 1.
C11_Witness ==
    /\ dOut # NoOutput
    /\ dIn.s.Steps = <<100, 100, 200>>
    /\ dIn.marginUSDT = 105
    /\ dOut.step = 1

\* The opportunities of the tick's ranked list that were not open when the
\* entry was decided, in rank order.
Remaining ==
    SelectSeq(tick.opps, LAMBDA sym : sym \notin DOMAIN tick.seen)

EntryFailures == {"scan failed", "price failed", "klines failed", "order failed"}

\* C12: the entry decision skips every opportunity already open and
\* attempts the highest-ranked remaining one: when the scan returned an
\* opportunity that is not open and its market data could be fetched, the
\* tick's order is for the first such opportunity.
C12_SkipsOpenOpportunities ==
    (pc = "done" /\ tick.opps # <<>>) =>
        IF Remaining = <<>>
        THEN tick.orders = <<>>
        ELSE \/ tick.outcome \in {"price failed", "klines failed"}
             \/ /\ Len(tick.orders) = 1
                /\ tick.orders[1].Symbol = Remaining[1]

\* C13: a tick's entry part that ends on a failed scan, price fetch, candle
\* fetch or order leaves the ledger's map and file as they were, and no
\* tick calls PlaceEntryOrder more than once.
C13_FailedEntryLeavesLedger ==
    [][(pc = "synced" /\ pc' = "done") =>
          /\ Len(tick'.orders) <= 1
          /\ tick'.outcome \in EntryFailures =>
                (ActiveTrades' = ActiveTrades /\ file' = file)]_vars

\* C13 witness: a tick whose one order failed, with a position in the ledger.
C13_Witness ==
    /\ pc = "done"
    /\ tick.outcome = "order failed"
    /\ Len(tick.orders) = 1
    /\ ActiveTrades # EmptyMap
    /\ file = MarshalIndent(ActiveTrades)

\* C14: a successful entry order adds exactly one record, for the order's
\* symbol, at step 1 with the first step size as margin, the order's
\* quantity (first step size times leverage over the ticker price), the
\* current time, and the returned average price or, when that is 0, the
\* ticker price; every other record stays as it was.
C14_EntryRecord ==
    [][(pc = "synced" /\ pc' = "done" /\ tick'.outcome = "opened") =>
          LET o == tick'.orders[Len(tick'.orders)]
              sym == o.Symbol
              leverage == IF Cfg.Leverage < 1 THEN 1 ELSE Cfg.Leverage
          IN  /\ sym \notin DOMAIN ActiveTrades
              /\ DOMAIN ActiveTrades' = DOMAIN ActiveTrades \cup {sym}
              /\ \A other \in DOMAIN ActiveTrades : ActiveTrades'[other] = ActiveTrades[other]
              /\ ActiveTrades'[sym].Symbol = sym
              /\ ActiveTrades'[sym].Step = 1
              /\ ActiveTrades'[sym].TotalMargin = Cfg.Steps[1]
              /\ ActiveTrades'[sym].Quantity = (Cfg.Steps[1] * leverage) \div o.Price
              /\ ActiveTrades'[sym].Quantity * o.Price = Cfg.Steps[1] * leverage
              /\ ActiveTrades'[sym].LastAddTime = now
              /\ ActiveTrades'[sym].EntryPrice =
                    IF o.AvgPrice = 0 THEN o.Price ELSE o.AvgPrice]_vars

\* C14 witness: an entry whose returned average price differs from the
\* ticker price, next to a record that was there before; and one whose
\* returned price is 0.
C14_Witness ==
    /\ pc = "done"
    /\ tick.outcome = "opened"
    /\ LET o == tick.orders[1]
       IN  /\ o.AvgPrice # 0
           /\ o.AvgPrice # o.Price
           /\ ActiveTrades[o.Symbol].EntryPrice = o.AvgPrice
           /\ DOMAIN ActiveTrades = Symbols

\* C15: a tick whose ledger already holds the configured maximum number of
\* positions skips the scan and opens nothing.
C15_MaxPositions ==
    [][(pc = "synced" /\ pc' = "done"
          /\ Cardinality(DOMAIN ActiveTrades) >= Cfg.MaxPositions) =>
          /\ tick'.opps = <<>>
          /\ tick'.orders = <<>>
          /\ ActiveTrades' = ActiveTrades]_vars

\* C16: after LoadState has reported a corrupt state file the process
\* does not run: the engine makes no ledger call and no tick.
C16_CorruptStateHalts ==
    (sto.load = "corrupt state file") => pc \notin Running

\* C17: when UpdatePosition has returned nil, the file loads to the whole
\* current map, the upserted record in it; so it does after a crash right
\* then and a restart.
C17_UpsertIsPersisted ==
    (pc = "idle" /\ sto.op = "UpdatePosition" /\ sto.ret = "nil") =>
        LET l == LoadState(file, EmptyMap)
            sym == sto.arg.Symbol
        IN  /\ l.err = ""
            /\ l.trades = ActiveTrades
            /\ sym \in DOMAIN ActiveTrades
            /\ ActiveTrades[sym] = sto.arg

\* C17 witness: the process crashed right after an UpdatePosition that
\* returned nil, was started again and has loaded the record.
C17_Witness ==
    /\ pc = "idle"
    /\ sto.op = "UpdatePosition"
    /\ sto.ret = "nil"
    /\ sto.crashedIn = "idle"
    /\ sto.load = "nil"
    /\ sto.arg.Step = 3
    /\ ActiveTrades[sto.arg.Symbol] = sto.arg

\* C18: a crash during a save leaves a complete document on disk.
C18_SaveIsAtomic ==
    (sto.crashedIn = "write") => file.complete

C20_OnlyLedgerMutates ==
    [][ActiveTrades' # ActiveTrades =>
          \/ pc = "call" /\ pc' = "save"
          \/ pc = "boot"
          \/ pc' = "boot"]_vars

\* A goroutine is changing the map: it is between mu.Lock() and mu.Unlock().
Mutating(g) == sto.g[g].at \in {"locked", "written"}

\* A goroutine is reading the map for persistence: it is between
\* mu.RLock() and MarshalIndent.
Reading(g) == sto.g[g].at = "rlocked"

\* C21: while one goroutine is changing the ledger's map (LoadState,
\* UpdatePosition, ClearPosition), no other goroutine is changing it or
\* reading it for persistence.
C21_MutationsExclusive ==
    \A g \in Goroutines, h \in Goroutines :
        (g # h /\ Mutating(g)) => (~Mutating(h) /\ ~Reading(h))

\* C21 witness: one goroutine holds the write lock with the map changed
\* while the other waits in SaveState for the read lock.
C21_Witness ==
    \E g \in Goroutines, h \in Goroutines :
        /\ g # h
        /\ sto.g[g].at = "written"
        /\ sto.g[g].op = "ClearPosition"
        /\ sto.g[h].at = "rlock"

\* C22: at most one call of Tick is in progress, and a tick begins only
\* when none is.
C22_TicksSequential ==
    [][sto.active' > sto.active => (sto.active = 0 /\ sto.active' = 1)]_vars

\* C22 witness: the ticker has fired during a tick and the tick is still
\* the only one.
C22_Witness ==
    /\ pc = "tick"
    /\ sto.timer = 1
    /\ sto.active = 1
    /\ sto.phase = "order"

\* C23: once Running is false no tick begins.
C23_NoTickAfterStop ==
    [][(pc \in {"first", "recv"} /\ ~sto.running) => pc' # "tick"]_vars

\* C24: a tick whose exchange call never returns is abandoned: the loop
\* gets back to waiting for the ticker.
C24_HungTickAbandoned ==
    (pc = "tick" /\ sto.hung) ~> (pc = "recv")

\* C25: the engine runs only with step sizes, step distances and step wait
\* times of one length.
C25_ListLengthsChecked ==
    (pc \in {"first", "tick", "recv", "exit"}) =>
        /\ Len(sto.cfg.Steps) = Len(sto.cfg.StepDistances)
        /\ Len(sto.cfg.Steps) = Len(sto.cfg.StepWaitTimes)

\* C26: a ledger call that has returned an error is followed by a logged
\* message.
C26_NoSilentError ==
    (pc = "idle" /\ sto.ret = "err") => sto.log # ""

\* C27: the take-profit target is the base percentage times 1.0 up to step
\* 3, 1.2 for steps 4..7 and 1.5 from step 8, the target price is the entry
\* less that percentage; base 1.5 gives 1.5, 1.8 and 2.25 at steps 1, 5
\* and 9, and 97.75 for entry 100 at step 9; the ledger and its file are
\* as before the computation.
C27_DynamicTarget ==
    (dOut # NoOutput) =>
        LET base == dIn.takeProfit100
            step == dIn.step
            percent == IF step <= 3 THEN base * 10
                       ELSE IF step <= 7 THEN base * 12
                       ELSE base * 15
        IN  /\ dOut.targetPercent1000 = percent
            /\ dOut.targetPrice100000 = dIn.avgEntry * 100000 - dIn.avgEntry * percent
            /\ base = 150 =>
                  /\ step = 1 => dOut.targetPercent1000 = 1500
                  /\ step = 5 => dOut.targetPercent1000 = 1800
                  /\ step = 9 => dOut.targetPercent1000 = 2250
                  /\ (step = 9 /\ dIn.avgEntry = 100) => dOut.targetPrice100000 = 9775000
            /\ ActiveTrades = dIn.trades
            /\ file = MarshalIndent(dIn.trades)

\* C27 witness: entry 100 at step 9 with base 1.5 gives 97.75, next to a
\* ledger that holds a position.
C27_Witness ==
    /\ dOut # NoOutput
    /\ dIn.takeProfit100 = 150
    /\ dIn.step = 9
    /\ dIn.avgEntry = 100
    /\ dOut.targetPrice100000 = 9775000
    /\ ActiveTrades # EmptyMap

C29_FetchFailure ==
    [][(pc = "wait" /\ pc' # "wait") =>
          /\ pc' = "synced"
          /\ tick'.fetchOk => tick'.snap = GetAllOpenPositions(exch)
          /\ ~tick'.fetchOk =>
                /\ ActiveTrades' = ActiveTrades
                /\ file' = file
                /\ tick'.log = <<"Failed to sync positions">>]_vars

\* C29 witness: a tick after a failed fetch, the ledger holding a symbol
\* the exchange has closed and lacking one it has open.
C29_Witness ==
    /\ pc = "synced"
    /\ ~tick.fetchOk
    /\ tick.log = <<"Failed to sync positions">>
    /\ \E sym \in DOMAIN ActiveTrades : sym \notin DOMAIN exch
    /\ \E sym \in DOMAIN exch : sym \notin DOMAIN ActiveTrades

C31_VolatilityOnlyWidens ==
    (dOut # NoOutput /\ dIn.volatility > 0 /\ dOut.next.shouldAdd) =>
        100 * dIn.currentPrice >=
            dIn.pos.EntryPrice * (100 + dIn.s.StepDistances[dIn.pos.Step + 1])

\* C32: a second reconciliation pass against the snapshot of the pass just
\* made, nothing else having touched the ledger, leaves the map as it is
\* and calls neither UpdatePosition nor RemovePosition (no save is made),
\* at whatever time it runs.
C32_ReconcileIdempotent ==
    (pc = "synced" /\ tick.fetchOk) =>
        \A t \in now..(MaxTime + 1) :
            LET again == Reconcile(StateManager(ActiveTrades, file), tick.snap, t)
            IN  /\ again.ActiveTrades = ActiveTrades
                /\ again.file = file
                /\ again.saves = 0

\* C32 witness: the first pass has adopted one symbol, changed the record
\* of another and had a snapshot of two positions to go through again.
C32_Witness ==
    /\ pc = "synced"
    /\ tick.fetchOk
    /\ Len(tick.snap) = 2
    /\ \E sym \in DOMAIN ActiveTrades : sym \notin tick.pre
    /\ \E sym \in tick.pre : sym \in DOMAIN ActiveTrades

\* C33: a reconciliation pass leaves, in the record of every symbol that
\* was tracked before it and is in the snapshot, the total margin, the
\* time of the last add, the next-step price, the stop loss and the take
\* profit as they were; and the loop body run for one snapshot position
\* leaves the record of every other symbol as it was.
C33_ReconcileFrame ==
    [][(pc = "wait" /\ pc' = "synced" /\ tick'.fetchOk) =>
          /\ \A sym \in DOMAIN ActiveTrades \cap ActiveSymbols(tick'.snap) :
                /\ sym \in DOMAIN ActiveTrades'
                /\ ActiveTrades'[sym].Symbol = sym
                /\ ActiveTrades'[sym].TotalMargin = ActiveTrades[sym].TotalMargin
                /\ ActiveTrades'[sym].LastAddTime = ActiveTrades[sym].LastAddTime
                /\ ActiveTrades'[sym].NextStepPrice = ActiveTrades[sym].NextStepPrice
                /\ ActiveTrades'[sym].StopLoss = ActiveTrades[sym].StopLoss
                /\ ActiveTrades'[sym].TakeProfit = ActiveTrades[sym].TakeProfit
          /\ \A i \in 1..Len(tick'.snap) :
                LET p  == tick'.snap[i]
                    sm == SyncPosition(StateManager(ActiveTrades, file), p, now)
                IN  \A other \in DOMAIN ActiveTrades \ {p.Symbol} :
                       /\ other \in DOMAIN sm.ActiveTrades
                       /\ sm.ActiveTrades[other] = ActiveTrades[other]
      ]_vars

\* C33 witness: a pass made a minute after the record's last add has
\* lowered its step from 3 to 1 and its quantity from 4 to 2, an other
\* symbol being in the snapshot too; margin and clock are as recorded.
C33_Witness ==
    /\ pc = "synced"
    /\ tick.fetchOk
    /\ now = 1
    /\ Len(tick.snap) = 2
    /\ \E sym \in tick.pre :
          /\ sym \in DOMAIN ActiveTrades
          /\ ActiveTrades[sym].Step = 1
          /\ ActiveTrades[sym].Quantity = 2
          /\ ActiveTrades[sym].TotalMargin = 40
          /\ ActiveTrades[sym].LastAddTime = 0

\* C34: when every call of UpdatePosition, ClearPosition and LoadState on
\* the one StateManager has returned and a file has been written, the file
\* is the serialization of the map as it then is, whatever the interleaving
\* of the calls was.
C34_FileIsFinalMap ==
    ((\A g \in Goroutines : sto.g[g].at = "idle") /\ file.exists) =>
        file = MarshalIndent(ActiveTrades)

\* C34 witness: all calls have returned, upserts of both symbols among
\* them, and the file holds both records.
C34_Witness ==
    /\ \A g \in Goroutines : sto.g[g].at = "idle"
    /\ DOMAIN ActiveTrades = Symbols
    /\ file.exists
    /\ Len(file.entries) = 2

====
